---- MODULE Spec2Model ----
(***************************************************************************)
(* Model of the video-generation wizard of the frontend:                   *)
(*   frontend/src/components/VideoGenerator.jsx  (workflow state machine)  *)
(*   frontend/src/config/api.js                  (transport client)        *)
(*   components/GenerationProgress               (reset / cancel buttons)  *)
(* The backend is the environment: every response it can give is an input. *)
(***************************************************************************)
EXTENDS Integers, Sequences, FiniteSets, TLC

\* currentStep, generationData: the useState values of VideoGenerator
\* flows, refreshes: its pending asynchronous work
\* lastOp, lastFlow, lastResp, lastLink: the operation that led to the
\* current state, and the download link it clicked
\* form: the VideoSettings form and the create-video payload built from it
\* poll: one invocation of videoAPI.pollStatus
\* (The url and settings values are only displayed and sent; no transition
\* reads them, and they are left out of the state.)
VARIABLES currentStep, generationData, flows, refreshes,
          lastOp, lastFlow, lastResp, lastLink, form, polling

vars == <<currentStep, generationData, flows, refreshes,
          lastOp, lastFlow, lastResp, lastLink, form, polling>>

------------------------------------------------------------------------------
(* Bounds *)

\* number of handler invocations (URL submissions, settings confirmations)
\* that start an asynchronous flow
MaxPending == 2

\* number of distinct session identifiers the backend hands out
NumSessions == 1

------------------------------------------------------------------------------
(* Values *)

\* JavaScript null / undefined (an absent field)
Null == 0

SessionIds == 1..NumSessions

\* product URLs the user submits
Urls == {"https://example.com/item/123", "https://example.com/item/456"}

\* error: null
NoError == <<>>

\* Messages are sequences of words, so that String.includes is a search.
BackendHint ==
  <<"Unable", "to", "connect", "to", "the", "backend.", "Please", "make",
    "sure", "the", "server", "is", "running", "on", "port", "8000.">>

EmptyResponse == <<"Empty", "response", "from", "scrape", "endpoint">>

NoSessionReturned == <<"Backend", "did", "not", "return", "a", "session", "ID">>

ScrapeGeneric ==
  <<"Failed", "to", "scrape", "product", "data", "-", "no", "session", "ID",
    "returned">>

ScriptGeneric == <<"Failed", "to", "generate", "script">>

VideoGeneric == <<"Failed", "to", "create", "video">>

NoSessionAvailable ==
  <<"No", "session", "ID", "available.", "Please", "try", "again.">>

\* `HTTP ${response.status}` and `HTTP ${status}: ${statusText}`
HttpStatusOnly == <<"HTTP", "500">>

HttpStatusText == <<"HTTP", "500:", "Internal", "Server", "Error">>

\* reading a property of a null JSON body
NullDeref == <<"Cannot", "read", "properties", "of", "null">>

\* String.prototype.includes, on words
Includes(msg, word) == \E i \in 1..Len(msg) : msg[i] = word

------------------------------------------------------------------------------
(* What fetch can deliver *)

\* a decoded JSON object; absent fields are Null / NoError / "absent"
Body(success, session_id, sessionIdCamel, error, product_data, ad_script, video_path, status) ==
  [isNull |-> FALSE, success |-> success, session_id |-> session_id,
   sessionId |-> sessionIdCamel, error |-> error,
   product_data |-> product_data, ad_script |-> ad_script,
   video_path |-> video_path, status |-> status]

\* the JSON value null
NullBody ==
  [isNull |-> TRUE, success |-> "absent", session_id |-> Null,
   sessionId |-> Null, error |-> NoError, product_data |-> Null,
   ad_script |-> Null, video_path |-> Null, status |-> "absent"]

\* a Response object returned as-is: none of the fields exists on it
RawResponse == Body("absent", Null, Null, NoError, Null, Null, Null, "absent")

\* fetch outcome: kind "reject" (fetch threw), "http" (response.ok false),
\* "json" (2xx with JSON content type), "raw" (2xx, other content type)
Outcome(kind, name, message, bodyIsJson, detail, bodyMessage, text, body) ==
  [kind |-> kind, name |-> name, message |-> message,
   bodyIsJson |-> bodyIsJson, detail |-> detail, bodyMessage |-> bodyMessage,
   text |-> text, body |-> body]

NoResp == Outcome("none", "", NoError, FALSE, NoError, NoError, NoError, RawResponse)

Reject(message) ==
  Outcome("reject", "TypeError", message, FALSE, NoError, NoError, NoError, RawResponse)

HttpJsonError(detail, bodyMessage) ==
  Outcome("http", "", NoError, TRUE, detail, bodyMessage, NoError, RawResponse)

HttpTextError(text) ==
  Outcome("http", "", NoError, FALSE, NoError, NoError, text, RawResponse)

Json(body) ==
  Outcome("json", "", NoError, TRUE, NoError, NoError, NoError, body)

Raw == Outcome("raw", "", NoError, FALSE, NoError, NoError, NoError, RawResponse)

\* messages of the TypeError fetch rejects with when the network fails
\* (Chromium, Firefox, WebKit)
NetworkMessages == { <<"Failed", "to", "fetch">>, <<"Load", "failed">> }

Rejections == { Reject(m) : m \in NetworkMessages }

\* non-2xx responses: a text body, a JSON body without detail or message,
\* a JSON body with a detail
HttpErrors ==
  { HttpTextError(NoError), HttpJsonError(NoError, NoError),
    HttpJsonError(<<"render", "failed">>, NoError) }

Failures == Rejections \cup HttpErrors

------------------------------------------------------------------------------
(* Transport client: apiRequest *)

Threw(message) == [threw |-> TRUE, message |-> message, result |-> RawResponse]

Returned(body) == [threw |-> FALSE, message |-> NoError, result |-> body]

\* errorMessage of a non-2xx response
HttpErrorMessage(o) ==
  IF o.bodyIsJson
    THEN IF o.detail # NoError THEN o.detail
         ELSE IF o.bodyMessage # NoError THEN o.bodyMessage
         ELSE HttpStatusOnly
    ELSE IF o.text # NoError THEN o.text ELSE HttpStatusText

apiRequest(o) ==
  CASE o.kind = "reject" ->
         IF o.name = "TypeError" /\ Includes(o.message, "fetch")
           THEN Threw(BackendHint)
           ELSE Threw(o.message)
    [] o.kind = "http" -> Threw(HttpErrorMessage(o))
    [] o.kind = "json" -> Returned(o.body)
    [] OTHER -> Returned(RawResponse)

------------------------------------------------------------------------------
(* videoAPI *)

\* a JavaScript truthiness test of the success field
Truthy(success) == success = "true"

scrapeProduct(o) ==
  LET r == apiRequest(o) IN
  IF r.threw THEN r
  ELSE IF r.result.isNull THEN Threw(EmptyResponse)
  ELSE IF r.result.session_id = Null /\ r.result.sessionId = Null
    THEN Threw(NoSessionReturned)
  ELSE IF r.result.session_id # Null /\ r.result.sessionId = Null
    THEN Returned([r.result EXCEPT !.sessionId = r.result.session_id])
  ELSE r

SessionRequired == <<"Session", "ID", "is", "required">>

generateScript(sessionId, o) ==
  IF sessionId = Null THEN Threw(SessionRequired) ELSE apiRequest(o)

createVideo(sessionId, o) ==
  IF sessionId = Null THEN Threw(SessionRequired) ELSE apiRequest(o)

getSessionData(sessionId, o) ==
  IF sessionId = Null THEN Threw(SessionRequired) ELSE apiRequest(o)

------------------------------------------------------------------------------
(* What the backend can answer to each call *)

ErrorFields == {NoError, <<"render", "failed">>}

\* product_data, ad_script and video_path of session s are written s.
\* A body that reports success carries its data and no error field; the
\* camelCase sessionId is tried where session_id is missing.
ScrapeResponses ==
  Failures \cup {Raw, Json(NullBody)} \cup
  { Json(Body("true", sid, Null, NoError, sid, Null, Null, "absent")) :
      sid \in SessionIds } \cup
  { Json(Body("true", Null, camel, NoError, Null, Null, Null, "absent")) :
      camel \in {Null, 1} } \cup
  { Json(Body(su, sid, Null, e, Null, Null, Null, "absent")) :
      su \in {"false", "absent"}, sid \in {Null, 1}, e \in ErrorFields }

ScriptResponses(s) ==
  Failures \cup {Raw, Json(NullBody)} \cup
  { Json(Body("true", Null, Null, NoError, Null, s, Null, "absent")) } \cup
  { Json(Body(su, Null, Null, e, Null, Null, Null, "absent")) :
      su \in {"false", "absent"}, e \in ErrorFields }

VideoResponses(s) ==
  Failures \cup {Raw} \cup
  { Json(Body("true", Null, Null, NoError, Null, Null, s, "absent")) } \cup
  { Json(Body(su, Null, Null, e, Null, Null, Null, "absent")) :
      su \in {"false", "absent"}, e \in ErrorFields }

\* status values of a session record (the ones pollStatus tells apart)
SessionStatuses == {"completed", "error"}

\* the session record as the backend has it, or a body without its fields
RefreshResponses(s) ==
  { Reject(<<"Failed", "to", "fetch">>), Raw } \cup
  { Json(Body("absent", Null, Null, NoError, s, s, s, st)) :
      st \in SessionStatuses }

------------------------------------------------------------------------------
(* Workflow state: useState initial values *)

InitialGenerationData ==
  [sessionId |-> Null, productData |-> Null, adScript |-> Null,
   videoPath |-> Null, progress |-> 0, status |-> "idle", error |-> NoError,
   currentOperation |-> ""]

\* one pending invocation of handleUrlSubmit or handleSettingsConfirm, at
\* its await or waiting for its timer; sessionId is the one its closure
\* holds (generationData.sessionId as captured by handleSettingsConfirm,
\* result.session_id once the scrape of handleUrlSubmit has succeeded);
\* reset records that handleReset ran while it was pending, acted that the
\* user did something while it waited for its step timer
Flow(kind, pc, sessionId) ==
  [kind |-> kind, pc |-> pc, sessionId |-> sessionId, reset |-> FALSE,
   acted |-> FALSE]

\* the pending flows as a user action leaves them
UserActed(fs) ==
  [i \in 1..Len(fs) |->
     IF fs[i].pc = "stepTimer" THEN [fs[i] EXCEPT !.acted = TRUE] ELSE fs[i]]

\* a flow that has run to its end is gone
Remove(seq, i) == SubSeq(seq, 1, i - 1) \o SubSeq(seq, i + 1, Len(seq))

\* one pending run of the Results-step effect
Refresh(pc, sessionId) == [pc |-> pc, sessionId |-> sessionId]

\* useState initial value of settings, which VideoSettings copies into
\* localSettings when it mounts
InitialSettings ==
  [aspectRatio |-> "16:9", template |-> "modern",
   voiceTone |-> "professional", enableKaraoke |-> TRUE,
   includeVoiceover |-> TRUE, includeMusic |-> TRUE,
   backgroundMusic |-> "corporate"]

\* no FormData built yet
NoPayload ==
  [aspect_ratio |-> "", template |-> "", voice_tone |-> "",
   enable_karaoke |-> "", include_voiceover |-> "",
   background_music |-> "", include_music |-> ""]

\* the form as mounted, nothing confirmed, nothing sent
InitialForm ==
  [phase |-> "editing", localSettings |-> InitialSettings,
   confirmedSettings |-> InitialSettings, payload |-> NoPayload]

\* pollStatus not called: no promise yet, nothing fetched
NotPolling ==
  [pc |-> "idle", sessionId |-> Null, timeoutMs |-> 0, intervalMs |-> 0,
   elapsed |-> 0, polls |-> 0, timers |-> 0, settled |-> 0,
   outcome |-> "pending", message |-> NoError, record |-> RawResponse,
   last |-> Returned(RawResponse)]

Init ==
  /\ currentStep = "input"
  /\ generationData = InitialGenerationData
  /\ flows = <<>>
  /\ refreshes = <<>>
  /\ lastOp = "init"
  /\ lastFlow = 0
  /\ lastResp = NoResp
  /\ lastLink = Null
  /\ form = InitialForm
  /\ polling = NotPolling

\* the effect with dependencies [currentStep, generationData.sessionId]
\* runs after a render in which either changed
refreshSessionData(step, sessionId) ==
  IF /\ <<step, sessionId>> # <<currentStep, generationData.sessionId>>
     /\ step = "results"
     /\ sessionId # Null
    THEN Append(refreshes, Refresh("await", sessionId))
    ELSE refreshes

Note(op, flow, resp) ==
  /\ lastOp' = op
  /\ lastFlow' = flow
  /\ lastResp' = resp
  /\ lastLink' = Null
  /\ UNCHANGED <<form, polling>>

------------------------------------------------------------------------------
(* handleUrlSubmit *)

\* a variant that spreads the previous state instead of replacing it
ScrapingStartedOverPrevious ==
  [generationData EXCEPT !.progress = 10, !.status = "scraping",
                         !.error = NoError,
                         !.currentOperation = "Scraping product data..."]

\* the first setGenerationData of handleUrlSubmit
ScrapingStarted ==
  [sessionId |-> Null, productData |-> Null, adScript |-> Null,
   videoPath |-> Null, progress |-> 10, status |-> "scraping",
   error |-> NoError, currentOperation |-> "Scraping product data..."]

\* up to the await: UrlInput is rendered on the input step only
handleUrlSubmit(submittedUrl) ==
  /\ currentStep = "input"
  /\ Len(flows) + Len(refreshes) < MaxPending
  /\ generationData' = ScrapingStarted
  /\ currentStep' = "generating"
  /\ flows' = Append(UserActed(flows), Flow("scrape", "awaitScrape", Null))
  /\ refreshes' = refreshSessionData("generating", Null)
  /\ Note("handleUrlSubmit", Len(flows) + 1, NoResp)

\* a variant that trusts the success flag alone
ScrapeSucceededBySuccessOnly(r) ==
  /\ ~r.threw
  /\ ~r.result.isNull
  /\ Truthy(r.result.success)

\* the condition of the if after the await: result.success && result.session_id
ScrapeSucceeded(r) ==
  /\ ~r.threw
  /\ ~r.result.isNull
  /\ Truthy(r.result.success)
  /\ r.result.session_id # Null

ScrapeErrorMessage(r) ==
  IF r.threw THEN r.message
  ELSE IF r.result.error # NoError THEN r.result.error
  ELSE ScrapeGeneric

\* the catch block of handleUrlSubmit
ScrapeFailed(message) ==
  [generationData EXCEPT !.status = "error", !.error = message,
                         !.currentOperation = "Scraping failed"]

\* the scrape call of flow i settles with o and the handler resumes
scrapeReturn(i, o) ==
  /\ flows[i].kind = "scrape"
  /\ flows[i].pc = "awaitScrape"
  /\ LET r == scrapeProduct(o) IN
     IF ScrapeSucceeded(r)
       THEN /\ generationData' =
                 [generationData EXCEPT
                    !.sessionId = r.result.session_id,
                    !.productData = r.result.product_data,
                    !.status = "scraped",
                    !.progress = 25,
                    !.currentOperation = "Product data scraped successfully!"]
            /\ flows' = [flows EXCEPT ![i].pc = "stepTimer",
                                      ![i].sessionId = r.result.session_id]
            /\ refreshes' = refreshSessionData(currentStep, r.result.session_id)
       ELSE /\ generationData' = ScrapeFailed(ScrapeErrorMessage(r))
            /\ flows' = Remove(flows, i)
            /\ refreshes' = refreshes
  /\ UNCHANGED currentStep
  /\ Note("scrapeReturn", i, o)

\* setTimeout(() => setCurrentStep('settings'), 1500)
stepTimer(i) ==
  /\ flows[i].pc = "stepTimer"
  /\ currentStep' = "settings"
  /\ flows' = Remove(flows, i)
  /\ refreshes' = refreshSessionData("settings", generationData.sessionId)
  /\ UNCHANGED generationData
  /\ Note("stepTimer", i, NoResp)

------------------------------------------------------------------------------
(* handleSettingsConfirm *)

\* the early return of the session check
MissingSession ==
  [generationData EXCEPT !.status = "error", !.error = NoSessionAvailable,
                         !.currentOperation = "Session error"]

\* a variant without the session check
SessionNeverMissing == FALSE

\* if (!generationData.sessionId)
SessionMissing == generationData.sessionId = Null

\* up to the await: VideoSettings is rendered on the settings step only
handleSettingsConfirm ==
  /\ currentStep = "settings"
  /\ IF SessionMissing
       THEN /\ generationData' = MissingSession
            /\ flows' = UserActed(flows)
            /\ UNCHANGED <<currentStep, refreshes>>
            /\ Note("handleSettingsConfirm", 0, NoResp)
       ELSE /\ Len(flows) + Len(refreshes) < MaxPending
            /\ currentStep' = "generating"
            /\ generationData' =
                 [generationData EXCEPT
                    !.status = "generating_script",
                    !.progress = 35,
                    !.currentOperation = "Generating AI script...",
                    !.error = NoError]
            /\ flows' = Append(UserActed(flows),
                               Flow("confirm", "awaitScript",
                                    generationData.sessionId))
            /\ refreshes' =
                 refreshSessionData("generating", generationData.sessionId)
            /\ Note("handleSettingsConfirm", Len(flows) + 1, NoResp)

\* a variant that takes any response that did not throw for a success
CallReturned(r) ==
  /\ ~r.threw
  /\ ~r.result.isNull

\* whether a generate-script or create-video call came back as a success
CallSucceeded(r) ==
  /\ ~r.threw
  /\ ~r.result.isNull
  /\ Truthy(r.result.success)

\* message of the error the try block throws otherwise
CallErrorMessage(r, generic) ==
  IF r.threw THEN r.message
  ELSE IF r.result.isNull THEN NullDeref
  ELSE IF r.result.error # NoError THEN r.result.error
  ELSE generic

\* a variant whose catch block swallows the failure
ScriptFailedSilently(message) == generationData

\* the outer catch block of handleSettingsConfirm
ScriptFailed(message) ==
  [generationData EXCEPT !.status = "error", !.error = message,
                         !.currentOperation = "Script generation failed"]

\* the generate-script call of flow i settles with o and the handler resumes
scriptReturn(i, o) ==
  /\ flows[i].kind = "confirm"
  /\ flows[i].pc = "awaitScript"
  /\ LET r == generateScript(flows[i].sessionId, o) IN
     IF CallSucceeded(r)
       THEN /\ generationData' =
                 [generationData EXCEPT
                    !.adScript = r.result.ad_script,
                    !.status = "script_generated",
                    !.progress = 50,
                    !.currentOperation = "AI script generated successfully!"]
            /\ flows' = [flows EXCEPT ![i].pc = "videoTimer"]
       ELSE /\ generationData' = ScriptFailed(CallErrorMessage(r, ScriptGeneric))
            /\ flows' = Remove(flows, i)
  /\ UNCHANGED <<currentStep, refreshes>>
  /\ Note("scriptReturn", i, o)

\* setTimeout(async () => {...}, 1000), up to its await
videoTimer(i) ==
  /\ flows[i].pc = "videoTimer"
  /\ generationData' =
       [generationData EXCEPT
          !.status = "creating_video",
          !.progress = 60,
          !.currentOperation = "Creating video with AI..."]
  /\ flows' = [flows EXCEPT ![i].pc = "awaitVideo"]
  /\ UNCHANGED <<currentStep, refreshes>>
  /\ Note("videoTimer", i, NoResp)

\* a variant that starts again from progress 0
VideoFailedFromZero(message) ==
  [generationData EXCEPT !.status = "error", !.error = message,
                         !.progress = 0,
                         !.currentOperation = "Video creation failed"]

\* the inner catch block
VideoFailed(message) ==
  [generationData EXCEPT !.status = "error", !.error = message,
                         !.currentOperation = "Video creation failed"]

\* a variant that does not keep the path of the video
VideoCreatedWithoutPath(video_path) ==
  [generationData EXCEPT !.status = "completed", !.progress = 100,
                         !.currentOperation = "Video created successfully!"]

\* the setGenerationData of the if (videoResult.success) branch
VideoCreated(video_path) ==
  [generationData EXCEPT !.videoPath = video_path,
                         !.status = "completed", !.progress = 100,
                         !.currentOperation = "Video created successfully!"]

\* the create-video call of flow i settles with o and the callback resumes
videoReturn(i, o) ==
  /\ flows[i].kind = "confirm"
  /\ flows[i].pc = "awaitVideo"
  /\ LET r == createVideo(flows[i].sessionId, o) IN
     IF CallSucceeded(r)
       THEN /\ generationData' = VideoCreated(r.result.video_path)
            /\ currentStep' = "results"
            /\ refreshes' =
                 refreshSessionData("results", generationData.sessionId)
       ELSE /\ generationData' = VideoFailed(CallErrorMessage(r, VideoGeneric))
            /\ UNCHANGED <<currentStep, refreshes>>
  /\ flows' = Remove(flows, i)
  /\ Note("videoReturn", i, o)

------------------------------------------------------------------------------
(* handleReset, onBack, the Results-step refresh *)

\* a variant that forgets to clear the error
ClearedExceptError ==
  [InitialGenerationData EXCEPT !.error = generationData.error]

\* the setGenerationData of handleReset
ClearedGenerationData ==
  [sessionId |-> Null, productData |-> Null, adScript |-> Null,
   videoPath |-> Null, progress |-> 0, status |-> "idle", error |-> NoError,
   currentOperation |-> ""]

\* "Cancel Generation" / "Try Again" on the generating step,
\* "Create Another" on the results step
handleReset ==
  /\ currentStep \in {"generating", "results"}
  /\ currentStep' = "input"
  /\ generationData' = ClearedGenerationData
  /\ flows' = [i \in 1..Len(flows) |->
                 [UserActed(flows)[i] EXCEPT !.reset = TRUE]]
  /\ refreshes' = refreshSessionData("input", Null)
  /\ Note("handleReset", 0, NoResp)

\* onBack={() => setCurrentStep('input')}
onBack ==
  /\ currentStep = "settings"
  /\ currentStep' = "input"
  /\ refreshes' = refreshSessionData("input", generationData.sessionId)
  /\ flows' = UserActed(flows)
  /\ UNCHANGED generationData
  /\ Note("onBack", 0, NoResp)

\* "Download Video" on the results step: without a session a toast and
\* nothing else, with one a click on a link to /api/download/<sessionId>
\* (toasts are not part of the workflow state and are left out)
handleDownload ==
  /\ currentStep = "results"
  /\ lastLink' = generationData.sessionId
  /\ flows' = UserActed(flows)
  /\ lastOp' = "handleDownload"
  /\ lastFlow' = 0
  /\ lastResp' = NoResp
  /\ UNCHANGED <<currentStep, generationData, refreshes, form, polling>>

\* a variant whose catch block reports the failure in the workflow state
RefreshFailedAsError ==
  [generationData EXCEPT !.status = "error",
                         !.currentOperation = "Refresh failed"]

\* the catch block of refreshSessionData: the failure is logged, no more
RefreshFailed == generationData

\* the getSessionData call of refresh k settles with o
refreshReturn(k, o) ==
  /\ refreshes[k].pc = "await"
  /\ LET r == getSessionData(refreshes[k].sessionId, o) IN
     IF r.threw
       THEN generationData' = RefreshFailed
       ELSE generationData' =
              [generationData EXCEPT
                 !.productData = r.result.product_data,
                 !.adScript = r.result.ad_script,
                 !.videoPath = r.result.video_path,
                 !.status = r.result.status]
  /\ refreshes' = Remove(refreshes, k)
  /\ UNCHANGED <<currentStep, flows>>
  /\ Note("refreshReturn", k, o)

------------------------------------------------------------------------------

Next ==
  \/ \E u \in Urls : handleUrlSubmit(u)
  \/ \E i \in 1..Len(flows) : \E o \in ScrapeResponses : scrapeReturn(i, o)
  \/ \E i \in 1..Len(flows) : stepTimer(i)
  \/ handleSettingsConfirm
  \/ \E i \in 1..Len(flows) :
       \E o \in ScriptResponses(flows[i].sessionId) : scriptReturn(i, o)
  \/ \E i \in 1..Len(flows) : videoTimer(i)
  \/ \E i \in 1..Len(flows) :
       \E o \in VideoResponses(flows[i].sessionId) : videoReturn(i, o)
  \/ handleReset
  \/ onBack
  \/ handleDownload
  \/ \E k \in 1..Len(refreshes) :
       \E o \in RefreshResponses(refreshes[k].sessionId) : refreshReturn(k, o)

Spec == Init /\ [][Next]_vars

\* Every backend call settles and every timer that was set fires: the
\* promise of each await and each setTimeout callback is run by the event
\* loop whatever the user does. The user actions are under no obligation.
Fairness ==
  \A i \in 1..MaxPending :
    /\ WF_vars(i <= Len(flows) /\ \E o \in ScrapeResponses : scrapeReturn(i, o))
    /\ WF_vars(i <= Len(flows) /\ stepTimer(i))
    /\ WF_vars(i <= Len(flows) /\
                 \E o \in ScriptResponses(flows[i].sessionId) : scriptReturn(i, o))
    /\ WF_vars(i <= Len(flows) /\ videoTimer(i))
    /\ WF_vars(i <= Len(flows) /\
                 \E o \in VideoResponses(flows[i].sessionId) : videoReturn(i, o))
    /\ WF_vars(i <= Len(refreshes) /\
                 \E o \in RefreshResponses(refreshes[i].sessionId) :
                   refreshReturn(i, o))

FairSpec == Init /\ [][Next]_vars /\ Fairness

------------------------------------------------------------------------------
(* videoAPI.pollStatus *)

workflowVars ==
  <<currentStep, generationData, flows, refreshes,
    lastOp, lastFlow, lastResp, lastLink>>

MaxTimeout == 3

MaxInterval == 2

MaxCallTime == 2

MaxTimerLate == 1

\* timeoutMs and intervalMs of a call, in units of time
Timeouts == 0..MaxTimeout

Intervals == 0..MaxInterval

\* a getStatus round trip takes time; a timer fires at its delay or later
CallTimes == 1..MaxCallTime

TimerLateness == 0..MaxTimerLate

\* value || fallback, on strings
OrDefault(value, fallback) == IF value = "" THEN fallback ELSE value

PollingTimeout == <<"Status", "polling", "timeout">>

GenerationFailed == <<"Generation", "failed">>

getStatus(sessionId, o) ==
  IF sessionId = Null THEN Threw(SessionRequired) ELSE apiRequest(o)

\* what GET /api/status/<id> can deliver: a failure, a response that is
\* not JSON, the JSON value null, a status record
StatusResponses ==
  Failures \cup {Raw, Json(NullBody)} \cup
  { Json(Body("absent", Null, Null, e, Null, Null, Null, st)) :
      st \in SessionStatuses \cup {"processing"}, e \in ErrorFields }

\* resolve / reject of the promise: only the first call settles it
resolve(p, record) ==
  [p EXCEPT !.pc = "settled", !.settled = @ + 1,
            !.outcome = IF p.outcome = "pending" THEN "resolved" ELSE @,
            !.record = IF p.outcome = "pending" THEN record ELSE @]

reject(p, message) ==
  [p EXCEPT !.pc = "settled", !.settled = @ + 1,
            !.outcome = IF p.outcome = "pending" THEN "rejected" ELSE @,
            !.message = IF p.outcome = "pending" THEN message ELSE @]

\* a variant of the timeout test that never gives up
pollUntimed(p) == [p EXCEPT !.pc = "awaitStatus", !.polls = @ + 1]

\* poll(), up to its return or its await
poll(p) ==
  IF p.elapsed > p.timeoutMs
    THEN reject(p, PollingTimeout)
    ELSE [p EXCEPT !.pc = "awaitStatus", !.polls = @ + 1]

\* pollStatus(sessionId, timeoutMs, intervalMs): startTime is taken and
\* poll() is called at once
pollStatus(sessionId, timeoutMs, intervalMs) ==
  /\ polling.pc = "idle"
  /\ polling' = poll([NotPolling EXCEPT !.sessionId = sessionId,
                                      !.timeoutMs = timeoutMs,
                                      !.intervalMs = intervalMs])
  /\ UNCHANGED <<workflowVars, form>>

\* a variant that goes on polling after a status of 'error'
StatusTakenLeniently(p, r) ==
  IF r.threw THEN reject(p, r.message)
  ELSE IF r.result.isNull THEN reject(p, NullDeref)
  ELSE IF r.result.status = "completed" THEN resolve(p, r.result)
  ELSE [p EXCEPT !.pc = "timer", !.timers = @ + 1]

\* poll(), from its await on: the catch block takes what getStatus throws
\* and the TypeError of reading status from null
StatusTaken(p, r) ==
  IF r.threw THEN reject(p, r.message)
  ELSE IF r.result.isNull THEN reject(p, NullDeref)
  ELSE IF r.result.status = "completed" THEN resolve(p, r.result)
  ELSE IF r.result.status = "error"
    THEN reject(p, IF r.result.error # NoError THEN r.result.error
                   ELSE GenerationFailed)
  ELSE [p EXCEPT !.pc = "timer", !.timers = @ + 1]

\* the getStatus call settles with o after d units of time
statusReturn(o, d) ==
  /\ polling.pc = "awaitStatus"
  /\ LET r == getStatus(polling.sessionId, o) IN
     polling' = StatusTaken([polling EXCEPT !.elapsed = @ + d, !.last = r], r)
  /\ UNCHANGED <<workflowVars, form>>

\* setTimeout(poll, intervalMs) fires, late units after its delay
pollTimer(late) ==
  /\ polling.pc = "timer"
  /\ polling' = poll([polling EXCEPT !.elapsed = @ + polling.intervalMs + late])
  /\ UNCHANGED <<workflowVars, form>>

PollNext ==
  \/ \E s \in {Null} \cup SessionIds, t \in Timeouts, iv \in Intervals :
       pollStatus(s, t, iv)
  \/ \E o \in StatusResponses, d \in CallTimes : statusReturn(o, d)
  \/ \E late \in TimerLateness : pollTimer(late)

\* every getStatus call returns or throws, and the timer fires
PollFairness ==
  /\ WF_vars(\E o \in StatusResponses, d \in CallTimes : statusReturn(o, d))
  /\ WF_vars(\E late \in TimerLateness : pollTimer(late))

PollSpec == Init /\ [][PollNext]_vars /\ PollFairness

------------------------------------------------------------------------------
(* VideoSettings and the create-video payload *)

\* the values the form offers
AspectRatios == {"16:9", "9:16", "1:1"}

Templates == {"modern", "classic", "dynamic", "minimal"}

VoiceTones ==
  {"professional", "friendly", "exciting", "calm", "authoritative"}

BackgroundMusics == {"corporate", "energetic", "relaxed", "modern"}

\* the keys handleChange is called with, each with the values of its input
FormInputs ==
  { <<"aspectRatio", v>> : v \in AspectRatios } \cup
  { <<"template", v>> : v \in Templates } \cup
  { <<"voiceTone", v>> : v \in VoiceTones } \cup
  { <<"backgroundMusic", v>> : v \in BackgroundMusics } \cup
  { <<k, b>> : k \in {"enableKaraoke", "includeVoiceover", "includeMusic"},
               b \in BOOLEAN }

\* const newSettings = { ...localSettings, [key]: value }
handleChange(key, value) ==
  /\ form.phase = "editing"
  /\ form' = [form EXCEPT !.localSettings = [@ EXCEPT ![key] = value]]
  /\ UNCHANGED <<workflowVars, polling>>

\* onConfirm(localSettings): handleSettingsConfirm(confirmedSettings) keeps
\* its argument for the create-video call
handleSubmit ==
  /\ form.phase = "editing"
  /\ form' = [form EXCEPT !.phase = "confirmed",
                          !.confirmedSettings = form.localSettings]
  /\ UNCHANGED <<workflowVars, polling>>

\* flag ? 'true' : 'false'
BoolString(flag) == IF flag THEN "true" ELSE "false"

\* a variant that reads include_music from the karaoke flag
createVideoFormDataSwapped(settings) ==
  [aspect_ratio |-> OrDefault(settings.aspectRatio, "16:9"),
   template |-> OrDefault(settings.template, "modern"),
   voice_tone |-> OrDefault(settings.voiceTone, "professional"),
   enable_karaoke |-> BoolString(settings.enableKaraoke),
   include_voiceover |-> BoolString(settings.includeVoiceover),
   background_music |-> OrDefault(settings.backgroundMusic, "corporate"),
   include_music |-> BoolString(settings.enableKaraoke)]

\* the FormData createVideo appends (session_id apart)
createVideoFormData(settings) ==
  [aspect_ratio |-> OrDefault(settings.aspectRatio, "16:9"),
   template |-> OrDefault(settings.template, "modern"),
   voice_tone |-> OrDefault(settings.voiceTone, "professional"),
   enable_karaoke |-> BoolString(settings.enableKaraoke),
   include_voiceover |-> BoolString(settings.includeVoiceover),
   background_music |-> OrDefault(settings.backgroundMusic, "corporate"),
   include_music |-> BoolString(settings.includeMusic)]

\* videoAPI.createVideo(generationData.sessionId, confirmedSettings)
sendCreateVideo ==
  /\ form.phase = "confirmed"
  /\ form' = [form EXCEPT !.phase = "sent",
                          !.payload = createVideoFormData(form.confirmedSettings)]
  /\ UNCHANGED <<workflowVars, polling>>

SettingsNext ==
  \/ \E in \in FormInputs : handleChange(in[1], in[2])
  \/ handleSubmit
  \/ sendCreateVideo

SettingsSpec == Init /\ [][SettingsNext]_vars

\* what a backend reads back from the form fields
DecodeSettings(payload) ==
  [aspectRatio |-> payload.aspect_ratio, template |-> payload.template,
   voiceTone |-> payload.voice_tone,
   enableKaraoke |-> payload.enable_karaoke = "true",
   includeVoiceover |-> payload.include_voiceover = "true",
   includeMusic |-> payload.include_music = "true",
   backgroundMusic |-> payload.background_music]

------------------------------------------------------------------------------
(* Vocabulary of the properties *)

Returns == {"scrapeReturn", "scriptReturn", "videoReturn"}

AwaitingCall == {"awaitScrape", "awaitScript", "awaitVideo"}

\* fetch rejected: the backend could not be reached
NetworkFailure(o) == o.kind = "reject"

\* a 2xx JSON object whose success field is false or absent
LogicalFailure(o) ==
  /\ o.kind = "json"
  /\ ~o.body.isNull
  /\ o.body.success \in {"false", "absent"}

\* any way a stage's call can fail
StageFailure(o) ==
  \/ o.kind \in {"reject", "http"}
  \/ LogicalFailure(o)

\* a 2xx JSON object that reports success and has no session_id
SuccessWithoutSession(o) ==
  /\ o.kind = "json"
  /\ ~o.body.isNull
  /\ o.body.success = "true"
  /\ o.body.session_id = Null

\* the calls and timers outstanding
Pending(fs) ==
  [i \in 1..Len(fs) |-> <<fs[i].kind, fs[i].pc, fs[i].sessionId>>]

\* the events no user triggers: responses and timers
AutomaticEvents ==
  Returns \cup {"stepTimer", "videoTimer", "refreshReturn"}

\* what the user can do
UserActions ==
  {"handleUrlSubmit", "handleSettingsConfirm", "handleReset", "onBack",
   "handleDownload"}

\* the values of status named at its declaration
Statuses ==
  {"idle", "scraping", "scraped", "generating_script", "script_generated",
   "creating_video", "completed", "error"}

\* the progress each handler assigns along with a status
Checkpoint(status) ==
  CASE status = "idle" -> 0
    [] status = "scraping" -> 10
    [] status = "scraped" -> 25
    [] status = "generating_script" -> 35
    [] status = "script_generated" -> 50
    [] status = "creating_video" -> 60
    [] status = "completed" -> 100
    [] OTHER -> -1

\* number of pending flows at pc
InStage(fs, pc) == Cardinality({i \in 1..Len(fs) : fs[i].pc = pc})

\* what VideoGenerator renders for the step; GenerationProgress returns its
\* error view (message, "Failed during: <operation>", Try Again) when its
\* error prop is set, its progress view otherwise
RenderedView ==
  CASE currentStep = "input" -> "UrlInput"
    [] currentStep = "settings" -> "VideoSettings"
    [] currentStep = "generating" ->
         IF generationData.error # NoError THEN "GenerationFailed"
         ELSE "GenerationProgress"
    [] OTHER -> "Results"

SessionFieldsNull ==
  /\ generationData.sessionId = Null
  /\ generationData.productData = Null
  /\ generationData.adScript = Null
  /\ generationData.videoPath = Null

------------------------------------------------------------------------------
(* C1 *)

\* C1: immediately after handleReset, whatever was pending, sessionId,
\* productData, adScript, videoPath and error are null, progress is 0,
\* status is idle and the step is input.
ResetClearsWorkflow ==
  lastOp = "handleReset" =>
    /\ SessionFieldsNull
    /\ generationData.error = NoError
    /\ generationData.progress = 0
    /\ generationData.status = "idle"
    /\ currentStep = "input"

\* a reset taken while a backend call was in flight
ResetWithCallInFlight ==
  /\ lastOp = "handleReset"
  /\ \E i \in 1..Len(flows) : flows[i].reset /\ flows[i].pc \in AwaitingCall
  /\ generationData.status = "idle"

------------------------------------------------------------------------------
(* C2 *)

\* C2: when the user has reset while a scrape, generate-script or
\* create-video call was in flight, the completion of that call changes
\* nothing of the workflow state.
LateCompletionIgnored ==
  [][\A i \in 1..Len(flows) :
       (/\ flows[i].reset
        /\ flows[i].pc \in AwaitingCall
        /\ lastOp' \in Returns
        /\ lastFlow' = i)
       => /\ generationData' = generationData
          /\ currentStep' = currentStep]_vars

------------------------------------------------------------------------------
(* C3 *)

\* C3: right after handleUrlSubmit, while its scrape call has not returned,
\* status is scraping, progress is 10, the step is generating and the
\* session fields and the error are null.
SubmitEntersScraping ==
  lastOp = "handleUrlSubmit" =>
    /\ generationData.status = "scraping"
    /\ generationData.progress = 10
    /\ currentStep = "generating"
    /\ SessionFieldsNull
    /\ generationData.error = NoError
    /\ flows[lastFlow].pc = "awaitScrape"

\* a URL was submitted and its scrape call is outstanding
SubmittedAndWaiting ==
  /\ lastOp = "handleUrlSubmit"
  /\ flows[lastFlow].pc = "awaitScrape"
  /\ generationData.status = "scraping"

------------------------------------------------------------------------------
(* C4 *)

\* C4: a scrape response that reports success without a session_id is
\* handled as a failure: status becomes error with a message, sessionId is
\* not assigned, the step does not move and no advance to Settings is
\* scheduled for that response.
SuccessWithoutSessionFails ==
  [][(lastOp' = "scrapeReturn" /\ SuccessWithoutSession(lastResp'))
       => /\ generationData'.status = "error"
          /\ generationData'.error # NoError
          /\ generationData'.sessionId = generationData.sessionId
          /\ currentStep' = currentStep
          /\ flows' = Remove(flows, lastFlow')
          /\ refreshes' = refreshes]_vars

\* such a response was handled, in a run that had no session yet
SuccessWithoutSessionSeen ==
  /\ lastOp = "scrapeReturn"
  /\ SuccessWithoutSession(lastResp)
  /\ lastResp.body.sessionId = Null
  /\ generationData.status = "error"
  /\ generationData.sessionId = Null

------------------------------------------------------------------------------
(* C5 *)

\* C5: handleSettingsConfirm invoked while sessionId is unset sets status to
\* error with the missing-session message and starts no flow: no
\* generate-script call, and no create-video call later.
ConfirmWithoutSessionFailsLocally ==
  [][(lastOp' = "handleSettingsConfirm" /\ generationData.sessionId = Null)
       => /\ generationData'.status = "error"
          /\ generationData'.error = NoSessionAvailable
          /\ Includes(generationData'.error, "session")
          /\ Pending(flows') = Pending(flows)
          /\ refreshes' = refreshes]_vars

\* the settings were confirmed without a session
ConfirmedWithoutSession ==
  /\ lastOp = "handleSettingsConfirm"
  /\ lastFlow = 0
  /\ generationData.sessionId = Null
  /\ generationData.status = "error"

------------------------------------------------------------------------------
(* C6 *)

\* C6: after the scrape, generate-script or create-video stage has failed
\* (transport error, non-2xx or logical failure), status is error, the error
\* message is non-empty and the step is generating.
StageFailureKeepsGenerating ==
  (lastOp \in Returns /\ StageFailure(lastResp)) =>
    /\ generationData.status = "error"
    /\ generationData.error # NoError
    /\ currentStep = "generating"

------------------------------------------------------------------------------
(* C7 *)

\* C7: after a 2xx response of any of the three stages whose success field is
\* false or absent, status is error and the error shown is the body's error
\* field when it has one, a generic message otherwise.
LogicalFailureShowsBodyError ==
  (lastOp \in Returns /\ LogicalFailure(lastResp)) =>
    /\ generationData.status = "error"
    /\ generationData.error # NoError
    /\ lastResp.body.error # NoError
         => generationData.error = lastResp.body.error

------------------------------------------------------------------------------
(* C8 *)

\* C8: after a stage's call has failed at network level (fetch rejected),
\* status is error and the error is the fixed hint that names the backend,
\* whatever the message of the rejection was.
NetworkFailureShowsHint ==
  (lastOp \in Returns /\ NetworkFailure(lastResp)) =>
    /\ generationData.status = "error"
    /\ generationData.error = BackendHint

------------------------------------------------------------------------------
(* C9 *)

\* C9: within a run, which a URL submission starts and a reset ends,
\* progress never decreases (the checkpoints of a successful run being
\* 10, 25, 35, 50, 60, 100 in this order).
ProgressNeverDecreases ==
  [][lastOp' \notin {"handleUrlSubmit", "handleReset"}
       => generationData'.progress >= generationData.progress]_vars

------------------------------------------------------------------------------
(* C10 *)

\* C10: once sessionId holds a value, no operation other than handleReset
\* changes it, neither to null nor to another identifier.
SessionIdAssignedOnce ==
  [][(generationData.sessionId # Null /\ lastOp' # "handleReset")
       => generationData'.sessionId = generationData.sessionId]_vars

------------------------------------------------------------------------------
(* C11 *)

\* C11: when the step timer of a scrape that succeeded with session id s
\* fires and the user has done nothing since that success, the step is
\* settings, status is scraped, sessionId is s and progress is 25, and the
\* timer has changed nothing but the step.
StepTimerYieldsSettings ==
  [][\A i \in 1..Len(flows) :
       (lastOp' = "stepTimer" /\ lastFlow' = i /\ ~flows[i].acted)
       => /\ currentStep' = "settings"
          /\ generationData'.status = "scraped"
          /\ generationData'.sessionId = flows[i].sessionId
          /\ generationData'.progress = 25
          /\ generationData' = generationData]_vars

------------------------------------------------------------------------------
(* C12 *)

\* C12: in every reachable state, status = error comes with a non-empty
\* error message.
ErrorStatusHasMessage ==
  generationData.status = "error" => generationData.error # NoError

------------------------------------------------------------------------------
(* C13 *)

\* C13: once status is error, no backend response and no timer changes
\* status, step or progress.
ErrorStaysUntilReset ==
  [][(generationData.status = "error" /\ lastOp' \in AutomaticEvents)
       => /\ generationData'.status = "error"
          /\ currentStep' = currentStep
          /\ generationData'.progress = generationData.progress]_vars

------------------------------------------------------------------------------
(* C14 *)

\* C14: in every reachable state whose status is not error, error is null.
ErrorOnlyWithErrorStatus ==
  generationData.status # "error" => generationData.error = NoError

------------------------------------------------------------------------------
(* C15 *)

\* C15: in every reachable state, status is one of the eight values, and
\* unless it is error, progress is the checkpoint of that status.
ProgressMatchesStatus ==
  /\ generationData.status \in Statuses
  /\ generationData.status # "error"
       => generationData.progress = Checkpoint(generationData.status)

------------------------------------------------------------------------------
(* C16 *)

\* C16: no stage is skipped: the step is settings only with a sessionId set,
\* and the step never goes from input straight to settings or results.
NoStageSkipped ==
  [][/\ currentStep' = "settings" => generationData'.sessionId # Null
     /\ currentStep = "input" => currentStep' \in {"input", "generating"}]_vars

------------------------------------------------------------------------------
(* C17 *)

\* C17: at most one scrape, generate-script or create-video call is in
\* flight at any time.
AtMostOneCallInFlight ==
  Cardinality({i \in 1..Len(flows) : flows[i].pc \in AwaitingCall}) <= 1

------------------------------------------------------------------------------
(* C18 *)

\* C18, step by step: a generate-script call is issued only by
\* handleSettingsConfirm and carries the sessionId of the workflow, which is
\* set; a sessionId is only ever set by a successful scrape response that
\* carries it; a flow waits for its video timer only after a successful
\* generate-script response for its session id; and a create-video call is
\* issued only by that timer, for the same session id.
StagesIssuedInOrder ==
  [][/\ InStage(flows', "awaitScript") > InStage(flows, "awaitScript")
          => /\ lastOp' = "handleSettingsConfirm"
             /\ generationData.sessionId # Null
             /\ flows'[lastFlow'].pc = "awaitScript"
             /\ flows'[lastFlow'].sessionId = generationData.sessionId
     /\ generationData'.sessionId \notin {Null, generationData.sessionId}
          => /\ lastOp' = "scrapeReturn"
             /\ lastResp'.kind = "json"
             /\ lastResp'.body.success = "true"
             /\ lastResp'.body.session_id = generationData'.sessionId
     /\ InStage(flows', "videoTimer") > InStage(flows, "videoTimer")
          => /\ lastOp' = "scriptReturn"
             /\ flows[lastFlow'].pc = "awaitScript"
             /\ lastResp'.kind = "json"
             /\ lastResp'.body.success = "true"
             /\ lastResp'.body.ad_script = flows[lastFlow'].sessionId
             /\ flows'[lastFlow'].sessionId = flows[lastFlow'].sessionId
     /\ InStage(flows', "awaitVideo") > InStage(flows, "awaitVideo")
          => /\ lastOp' = "videoTimer"
             /\ flows[lastFlow'].pc = "videoTimer"
             /\ flows'[lastFlow'].pc = "awaitVideo"
             /\ flows'[lastFlow'].sessionId = flows[lastFlow'].sessionId
             /\ flows'[lastFlow'].sessionId # Null]_vars

\* a create-video call is in flight for the session the scrape produced
CreateVideoInFlight ==
  /\ lastOp = "videoTimer"
  /\ flows[lastFlow].pc = "awaitVideo"
  /\ flows[lastFlow].sessionId \in SessionIds
  /\ generationData.sessionId = flows[lastFlow].sessionId

------------------------------------------------------------------------------
(* C19 *)

\* C19: from status = error no user action other than handleReset leads to
\* a status that is not error.
ErrorLeftOnlyByReset ==
  [][(/\ generationData.status = "error"
      /\ lastOp' \in UserActions \ {"handleReset"})
       => generationData'.status = "error"]_vars

------------------------------------------------------------------------------
(* C20 *)

\* C20: handleDownload invoked while sessionId is unset clicks no download
\* link, issues no call, and leaves status = error with a non-empty error.
DownloadWithoutSessionFailsLocally ==
  [][(lastOp' = "handleDownload" /\ generationData.sessionId = Null)
       => /\ lastLink' = Null
          /\ Pending(flows') = Pending(flows)
          /\ refreshes' = refreshes
          /\ generationData'.status = "error"
          /\ generationData'.error # NoError]_vars

------------------------------------------------------------------------------
(* C21 *)

\* C21: in every reachable state with status = error the user sees the
\* error view of GenerationProgress: the failure message, the operation it
\* occurred during and the reset button.
ErrorStatusShowsErrorView ==
  generationData.status = "error" =>
    /\ RenderedView = "GenerationFailed"
    /\ generationData.error # NoError
    /\ generationData.currentOperation # ""

------------------------------------------------------------------------------
(* C22 *)

\* C22: each entry into the Results step issues exactly one getSessionData
\* call, for the sessionId of the workflow, and applying the result of a
\* refresh issues none.
ResultsEntryRefreshesOnce ==
  [][/\ (currentStep # "results" /\ currentStep' = "results")
          => /\ Len(refreshes') = Len(refreshes) + 1
             /\ generationData'.sessionId # Null
             /\ refreshes'[Len(refreshes')].sessionId
                  = generationData'.sessionId
     /\ lastOp' = "refreshReturn"
          => Len(refreshes') = Len(refreshes) - 1]_vars

------------------------------------------------------------------------------
(* C23 *)

\* C23: a failure of the Results-step refresh changes nothing: the step
\* and every field of the workflow state keep their values.
RefreshFailureChangesNothing ==
  [][(lastOp' = "refreshReturn" /\ lastResp'.kind \in {"reject", "http"})
       => /\ generationData' = generationData
          /\ currentStep' = currentStep]_vars

\* a refresh has failed on the results step of a completed run
RefreshFailedOnResults ==
  /\ lastOp = "refreshReturn"
  /\ lastResp.kind = "reject"
  /\ currentStep = "results"
  /\ generationData.status = "completed"
  /\ generationData.videoPath = generationData.sessionId

------------------------------------------------------------------------------
(* C25 *)

\* C25: once adScript is stored, only handleReset and handleUrlSubmit
\* change it.
AdScriptImmutable ==
  [][(/\ generationData.adScript # Null
      /\ lastOp' \notin {"handleReset", "handleUrlSubmit"})
       => generationData'.adScript = generationData.adScript]_vars

------------------------------------------------------------------------------
(* C26 *)

\* C26: a stage failure changes only status, error and currentOperation:
\* progress, sessionId, productData, adScript, videoPath and the step keep
\* the values they had.
StageFailureFrame ==
  [][(lastOp' \in Returns /\ StageFailure(lastResp'))
       => /\ generationData'.status = "error"
          /\ generationData'.progress = generationData.progress
          /\ generationData'.sessionId = generationData.sessionId
          /\ generationData'.productData = generationData.productData
          /\ generationData'.adScript = generationData.adScript
          /\ generationData'.videoPath = generationData.videoPath
          /\ currentStep' = currentStep]_vars

\* a create-video call has failed after the script was stored
VideoFailedAfterScript ==
  /\ lastOp = "videoReturn"
  /\ StageFailure(lastResp)
  /\ generationData.status = "error"
  /\ generationData.progress = 60
  /\ generationData.adScript = generationData.sessionId
  /\ generationData.sessionId # Null

------------------------------------------------------------------------------
(* C29 *)

\* C29: in every reachable state, productData, adScript and videoPath are
\* null or belong to the session stored in sessionId (the data of session s
\* being written s), and are null while sessionId is null.
SessionDataConsistent ==
  /\ generationData.productData \in {Null, generationData.sessionId}
  /\ generationData.adScript \in {Null, generationData.sessionId}
  /\ generationData.videoPath \in {Null, generationData.sessionId}

------------------------------------------------------------------------------
(* C24 *)

\* C24: for every settings value the form produces, the payload createVideo
\* builds decodes back to the confirmed settings field by field, each
\* boolean is sent as "true" or "false", and the settings createVideo gets
\* are the ones the user confirmed.
SettingsRoundTrip ==
  /\ form.phase \in {"confirmed", "sent"}
       => form.confirmedSettings = form.localSettings
  /\ form.phase = "sent"
       => /\ DecodeSettings(form.payload) = form.confirmedSettings
          /\ form.payload.enable_karaoke \in {"true", "false"}
          /\ form.payload.include_voiceover \in {"true", "false"}
          /\ form.payload.include_music \in {"true", "false"}

\* a payload was sent for settings that differ from the defaults
CustomSettingsSent ==
  /\ form.phase = "sent"
  /\ form.confirmedSettings.aspectRatio = "9:16"
  /\ form.confirmedSettings.enableKaraoke = FALSE
  /\ form.confirmedSettings.includeMusic = TRUE
  /\ form.payload.enable_karaoke = "false"
  /\ form.payload.include_music = "true"

------------------------------------------------------------------------------
(* C27, C28 *)

\* the user never resets and never goes back
NeverResetsNorGoesBack == [](lastOp \notin {"handleReset", "onBack"})

\* each call that returns is taken by its handler for a success
CallsReturnSuccess == [](lastOp \in Returns => generationData.status # "error")

\* the user confirms the settings once the Settings step is shown
ConfirmsWhenShown ==
  (currentStep = "settings") ~> (lastOp = "handleSettingsConfirm")

VideoReady ==
  /\ currentStep = "results"
  /\ generationData.status = "completed"
  /\ generationData.progress = 100
  /\ generationData.videoPath # Null

\* C27: when every call returns a success, every timer fires, and the user
\* confirms the settings when they are shown and never resets nor goes
\* back, a submitted URL leads to the results step with status completed,
\* progress 100 and the video path stored.
HappyPathLiveness ==
  (NeverResetsNorGoesBack /\ CallsReturnSuccess /\ ConfirmsWhenShown)
    => ((lastOp = "handleUrlSubmit") ~> VideoReady)

\* the create-video call has just succeeded at the end of a whole run
HappyPathCompleted ==
  /\ lastOp = "videoReturn"
  /\ VideoReady
  /\ generationData.sessionId # Null
  /\ generationData.productData # Null
  /\ generationData.adScript # Null
  /\ flows = <<>>

InFlightStatuses ==
  {"scraping", "generating_script", "script_generated", "creating_video"}

------------------------------------------------------------------------------
(* C30 *)

\* what a step of the helper has to do; rejectsOnNull tells whether a
\* result of null counts among the rejections or among the other results
PollStep(rejectsOnNull) ==
  /\ polling.pc = "settled" => polling' = polling
  /\ polling.pc = "awaitStatus" /\ polling'.pc # "awaitStatus" =>
       LET before == polling.timers
           after == polling' IN
       /\ after.polls = polling.polls
       /\ CASE after.last.threw ->
                 /\ after.pc = "settled" /\ after.outcome = "rejected"
                 /\ after.message = after.last.message
            [] ~after.last.threw /\ after.last.result.isNull ->
                 IF rejectsOnNull
                   THEN after.pc = "settled" /\ after.outcome = "rejected"
                   ELSE after.pc = "timer" /\ after.timers = before + 1
            [] OTHER ->
                 IF after.last.result.status = "completed"
                   THEN /\ after.pc = "settled" /\ after.outcome = "resolved"
                        /\ after.record = after.last.result
                 ELSE IF after.last.result.status = "error"
                   THEN after.pc = "settled" /\ after.outcome = "rejected"
                 ELSE /\ after.pc = "timer" /\ after.timers = before + 1
                      /\ after.settled = 0
  /\ polling.pc = "timer" /\ polling'.pc # "timer" =>
       /\ polling'.elapsed >= polling.elapsed + polling.intervalMs
       /\ polling'.timers = polling.timers
       /\ IF polling'.elapsed > polling.timeoutMs
            THEN /\ polling'.pc = "settled" /\ polling'.outcome = "rejected"
                 /\ polling'.message = PollingTimeout
                 /\ polling'.polls = polling.polls
            ELSE /\ polling'.pc = "awaitStatus"
                 /\ polling'.polls = polling.polls + 1

SettlesAtMostOnce ==
  /\ polling.settled <= 1
  /\ polling.pc = "settled" <=> polling.settled = 1
  /\ polling.outcome = "pending" <=> polling.settled = 0

\* C30: pollStatus settles exactly once and always does: it resolves with
\* the record that reports 'completed', rejects on a status of 'error', on
\* what getStatus throws, on a result of null (no status can be read from
\* it) and on a poll that starts after more than timeoutMs; any other
\* result schedules exactly one further poll intervalMs later; nothing is
\* polled or scheduled once it has settled.
PollSettlesOnce ==
  /\ []SettlesAtMostOnce
  /\ [][PollStep(TRUE)]_vars
  /\ (polling.pc # "idle") ~> (polling.pc = "settled")

\* C30 as stated: every result other than 'completed', 'error' and a throw
\* of getStatus schedules one further poll.
PollSettlesAsStated ==
  /\ []SettlesAtMostOnce
  /\ [][PollStep(FALSE)]_vars
  /\ (polling.pc # "idle") ~> (polling.pc = "settled")

\* the timeout ended a call that had polled, waited and polled again
TimedOutAfterPolling ==
  /\ polling.pc = "settled"
  /\ polling.outcome = "rejected"
  /\ polling.message = PollingTimeout
  /\ polling.polls >= 2
  /\ polling.timers = polling.polls

====
